---- MODULE Spec2Model ----
(***************************************************************************)
(* Model of the election API of main.py: the three public handlers         *)
(* validate_voter, cast_vote and get_results, run by concurrent request    *)
(* workers against the four MongoDB collections voter, voterstatus,        *)
(* candidate and vote.  Every collection access of a handler is one        *)
(* step; the steps of different requests interleave freely.                *)
(***************************************************************************)
EXTENDS Integers, Sequences, FiniteSets, TLC

(* ------------------------------ bounds -------------------------------- *)
NumProcs == 2        \* concurrent request workers, one request each

(* -------------------------- program constants ------------------------- *)
MinNimLen == 8       \* Field(..., min_length=8, ...)
MaxNimLen == 20      \* Field(..., max_length=20)

Procs == 1..NumProcs
\* the well-formed voter identifiers of the model
Nims == {1, 2}
\* request inputs: the well-formed identifiers and one that is too short
NimInputs == {0} \cup Nims
NimLen(n) == IF n = 0 THEN MinNimLen - 1 ELSE MinNimLen

\* candidate_id strings a request may carry: two spellings of the id of
\* candidate 1 (hex digits in lower and in upper case), the id of candidate
\* 2, a well-formed id that is in no registry, and a string that is no id
CandidateIdInputs == {"a1", "A1", "b2", "c3", "zz"}

(* ------------------------ bson.ObjectId, str() ------------------------ *)
\* ObjectId(oid): the 12 bytes the hex string denotes (bytes.fromhex reads
\* both cases); 0 stands for the exception on a string that is no id
ObjectId(oid) ==
    CASE oid = "a1" -> 1
      [] oid = "A1" -> 1
      [] oid = "b2" -> 2
      [] oid = "c3" -> 3
      [] OTHER -> 0

\* str(ObjectId): always the lower-case hex spelling
str(id) ==
    CASE id = 1 -> "a1"
      [] id = 2 -> "b2"
      [] id = 3 -> "c3"
      [] OTHER -> "None"

(* ----------------------------- documents ------------------------------ *)
None == [found |-> FALSE]
\* voter documents; eligible is "unset" when the field is missing
VoterDocs == { [found |-> TRUE, eligible |-> e] : e \in {"true", "false", "unset"} }
StatusDoc(hv, at) == [found |-> TRUE, has_voted |-> hv, voted_at |-> at]
\* the registry, in the collection's natural order: the ballot numbers are
\* not in the order of the documents
CandidateDocs == << [_id |-> 1, number |-> 2], [_id |-> 2, number |-> 1] >>
\* Vote(candidate_id=...): the only field of a vote document
Vote(cid) == [candidate_id |-> cid]

VARIABLES
    db,             \* the collections: db.voter and db.voterstatus map a nim to
                    \* its document or None; db.candidate and db.vote are the
                    \* documents in insertion order
    now,            \* datetime.now(timezone.utc), a logical clock
    pc,             \* per worker: the handler step it is at
    op,             \* per worker: the handler it runs
    nim,            \* per worker: payload.nim
    candidate_id,   \* per worker: payload.candidate_id
    voter,          \* per worker: the handler's local voter document
    candidates,     \* per worker: get_results' local list of candidates
    code,           \* per worker: HTTP status of the response, 0 while none
    body,           \* per worker: the response model returned
    overlapped,     \* history: another cast_vote for the same nim was in flight
    after_success,  \* history: the call began after a success for its nim
    pre_voted,      \* history: the ledger's has_voted for its nim when it began
    writes,         \* history: the documents the call has written, in order
    acked_at_start  \* history: the votes acknowledged when get_results began

history == <<overlapped, after_success, pre_voted, writes, acked_at_start>>
vars == <<db, now, pc, op, nim, candidate_id, voter, candidates, code, body,
          overlapped, after_success, pre_voted, writes, acked_at_start>>

NoBody == [kind |-> "none"]

(* --------------------------- pure helpers ----------------------------- *)
\* Field(..., min_length=8, max_length=20) of the request models
NimValid(n) == MinNimLen <= NimLen(n) /\ NimLen(n) <= MaxNimLen

\* voter.get("eligible", True)
GetEligible(doc) == IF doc.eligible = "unset" THEN TRUE ELSE doc.eligible = "true"

\* mutant of HasVoted: any status record counts as voted ("if status:")
HasVotedIfFound(doc) == doc.found

\* mutant of HasVoted: the flag is read under a name no record has
HasVotedWrongField(doc) == doc.found /\ FALSE

\* status and status.get("has_voted", False)
HasVoted(doc) == doc.found /\ doc.has_voted

\* mutant of NotEligible: the eligible flag is not consulted
NotEligibleOnlyAbsent(doc) == ~doc.found

\* the test of cast_vote: not voter or not voter.get("eligible", True)
NotEligible(doc) == ~doc.found \/ ~GetEligible(doc)

\* mutant of FindCandidate: the filter is dropped, find_one({})
FindCandidateAny(coll, id) == DOMAIN coll

\* db["candidate"].find_one({"_id": id}): the matching documents
FindCandidate(coll, id) == { i \in DOMAIN coll : coll[i]._id = id }

\* create_document(collection_name, data): insert the document
create_document(coll, doc) == Append(coll, doc)

\* mutant of MarkVoted: the flag is flipped instead of set
MarkVotedToggle(ledger, n, at) ==
    [ledger EXCEPT ![n] = StatusDoc(~(@.found /\ @.has_voted), at)]

\* update_one({"nim": nim}, {"$set": {...has_voted: True, voted_at}}, upsert=True)
MarkVoted(ledger, n, at) == [ledger EXCEPT ![n] = StatusDoc(TRUE, at)]

Done(p, c, b) ==
    /\ pc' = [pc EXCEPT ![p] = "done"]
    /\ code' = [code EXCEPT ![p] = c]
    /\ body' = [body EXCEPT ![p] = b]

Goto(p, l) ==
    /\ pc' = [pc EXCEPT ![p] = l]
    /\ UNCHANGED <<code, body>>

InFlightCast(q, n) ==
    op[q] = "cast_vote" /\ nim[q] = n /\ pc[q] \notin {"idle", "done"}

\* the workers are interchangeable: worker p serves the p-th request to arrive
Arrives(p) == pc[p] = "idle" /\ (IF p = 1 THEN TRUE ELSE pc[p - 1] # "idle")

Succeeded(q, n) ==
    op[q] = "cast_vote" /\ nim[q] = n /\ pc[q] = "done" /\ code[q] = 200

\* the votes acknowledged to their callers so far: the calls answered with
\* success, and the votes cast before the first request of the model (their
\* status records carry the time 0)
Acknowledged ==
    Cardinality({ q \in Procs : op[q] = "cast_vote" /\ pc[q] = "done" /\ code[q] = 200 })
    + Cardinality({ n \in Nims : /\ db.voterstatus[n] # None
                                 /\ db.voterstatus[n].has_voted
                                 /\ db.voterstatus[n].voted_at = 0 })

(* ------------------------------ cast_vote ----------------------------- *)
\* POST /api/vote arrives; pydantic validates VoteRequest
CastVoteCall(p, n, c) ==
    /\ Arrives(p)
    /\ op' = [op EXCEPT ![p] = "cast_vote"]
    /\ nim' = [nim EXCEPT ![p] = n]
    /\ candidate_id' = [candidate_id EXCEPT ![p] = c]
    /\ IF NimValid(n)
       THEN /\ Goto(p, "cv_voter")
            /\ overlapped' = [q \in Procs |->
                 IF q = p THEN \E r \in Procs \ {p} : InFlightCast(r, n)
                 ELSE overlapped[q] \/ InFlightCast(q, n)]
            /\ after_success' = [after_success EXCEPT ![p] =
                 \E r \in Procs : Succeeded(r, n)]
            /\ pre_voted' = [pre_voted EXCEPT ![p] =
                 db.voterstatus[n] # None /\ db.voterstatus[n].has_voted]
       ELSE /\ Done(p, 422, NoBody)
            /\ UNCHANGED <<overlapped, after_success, pre_voted>>
    /\ UNCHANGED <<db, now, voter, candidates, writes, acked_at_start>>

\* 1) Check voter eligibility
CastVoteFindVoter(p) ==
    /\ pc[p] = "cv_voter"
    /\ voter' = [voter EXCEPT ![p] = db.voter[nim[p]]]
    /\ IF NotEligible(db.voter[nim[p]])
       THEN Done(p, 403, NoBody)
       ELSE Goto(p, "cv_status")
    /\ UNCHANGED <<db, now, op, nim, candidate_id, candidates, history>>

\* 2) Enforce one-vote-per-NIM
CastVoteFindStatus(p) ==
    /\ pc[p] = "cv_status"
    /\ IF HasVoted(db.voterstatus[nim[p]])
       THEN Done(p, 409, NoBody)
       ELSE Goto(p, "cv_candidate")
    /\ UNCHANGED <<db, now, op, nim, candidate_id, voter, candidates, history>>

\* 3) Candidate must exist
CastVoteFindCandidate(p) ==
    /\ pc[p] = "cv_candidate"
    /\ IF ObjectId(candidate_id[p]) = 0
       THEN Done(p, 400, NoBody)
       ELSE IF FindCandidate(db.candidate, ObjectId(candidate_id[p])) = {}
       THEN Done(p, 404, NoBody)
       ELSE Goto(p, "cv_create")
    /\ UNCHANGED <<db, now, op, nim, candidate_id, voter, candidates, history>>

\* mutant of CastVoteCreateVote: the ballot is not inserted
CastVoteCreateVoteSkipped(p) ==
    /\ pc[p] = "cv_create"
    /\ Goto(p, "cv_update")
    /\ UNCHANGED <<db, now, op, nim, candidate_id, voter, candidates, history>>

\* mutant of CastVoteCreateVote: the vote document also carries the nim
CastVoteCreateVoteWithNim(p) ==
    /\ pc[p] = "cv_create"
    /\ db' = [db EXCEPT !.vote =
                 create_document(@, [candidate_id |-> candidate_id[p], nim |-> nim[p]])]
    /\ Goto(p, "cv_update")
    /\ writes' = [writes EXCEPT ![p] =
                     Append(@, [candidate_id |-> candidate_id[p], nim |-> nim[p]])]
    /\ UNCHANGED <<now, op, nim, candidate_id, voter, candidates, overlapped, after_success, pre_voted, acked_at_start>>

\* 4) Record anonymous vote (no NIM stored)
CastVoteCreateVote(p) ==
    /\ pc[p] = "cv_create"
    /\ db' = [db EXCEPT !.vote = create_document(@, Vote(candidate_id[p]))]
    /\ Goto(p, "cv_update")
    /\ writes' = [writes EXCEPT ![p] = Append(@, Vote(candidate_id[p]))]
    /\ UNCHANGED <<now, op, nim, candidate_id, voter, candidates, overlapped, after_success, pre_voted, acked_at_start>>

\* 5) Mark voter status as voted with timestamp, then return success
CastVoteMarkVoted(p) ==
    /\ pc[p] = "cv_update"
    /\ db' = [db EXCEPT !.voterstatus = MarkVoted(@, nim[p], now)]
    /\ now' = now + 1
    /\ Done(p, 200, [kind |-> "vote", success |-> TRUE])
    /\ writes' = [writes EXCEPT ![p] = Append(@, StatusDoc(TRUE, now))]
    /\ UNCHANGED <<op, nim, candidate_id, voter, candidates, overlapped, after_success, pre_voted, acked_at_start>>

\* 5) fails: update_one raises (a timeout, a lost connection) or the worker is
\* abandoned after the ballot was inserted; nothing in cast_vote catches it,
\* the request ends with a server error and the status record is not written
CastVoteMarkFails(p) ==
    /\ pc[p] = "cv_update"
    /\ Done(p, 500, NoBody)
    /\ UNCHANGED <<db, now, op, nim, candidate_id, voter, candidates, history>>

(* ---------------------------- validate_voter -------------------------- *)
\* mutant of ValidateResponse: the branch for an unknown voter is missing
ValidateResponseNoDefault(n, voterDoc, statusDoc) ==
    [kind |-> "validate", nim |-> n,
     eligible |-> voterDoc.found /\ GetEligible(voterDoc),
     has_voted |-> HasVoted(statusDoc)]

\* the response of validate_voter from its two reads
ValidateResponse(n, voterDoc, statusDoc) ==
    LET eligible == voterDoc.found /\ GetEligible(voterDoc)
        has_voted == HasVoted(statusDoc)
    IN  IF ~voterDoc.found
        THEN [kind |-> "validate", nim |-> n, eligible |-> FALSE, has_voted |-> FALSE]
        ELSE [kind |-> "validate", nim |-> n, eligible |-> eligible, has_voted |-> has_voted]

\* POST /api/voter/validate arrives; pydantic validates ValidateRequest
ValidateCall(p, n) ==
    /\ Arrives(p)
    /\ op' = [op EXCEPT ![p] = "validate_voter"]
    /\ nim' = [nim EXCEPT ![p] = n]
    /\ IF NimValid(n) THEN Goto(p, "vv_voter") ELSE Done(p, 422, NoBody)
    /\ UNCHANGED <<db, now, candidate_id, voter, candidates, history>>

\* voter = db["voter"].find_one({"nim": nim})
ValidateFindVoter(p) ==
    /\ pc[p] = "vv_voter"
    /\ voter' = [voter EXCEPT ![p] = db.voter[nim[p]]]
    /\ Goto(p, "vv_status")
    /\ UNCHANGED <<db, now, op, nim, candidate_id, candidates, history>>

\* mutant of ValidateFindStatus: a missing status record is created on read
ValidateFindStatusUpsert(p) ==
    /\ pc[p] = "vv_status"
    /\ db' = [db EXCEPT !.voterstatus[nim[p]] =
                 IF @ = None THEN StatusDoc(FALSE, 0) ELSE @]
    /\ Done(p, 200, ValidateResponse(nim[p], voter[p], db.voterstatus[nim[p]]))
    /\ UNCHANGED <<now, op, nim, candidate_id, voter, candidates, history>>

\* status = db["voterstatus"].find_one({"nim": nim}), then the response
ValidateFindStatus(p) ==
    /\ pc[p] = "vv_status"
    /\ Done(p, 200, ValidateResponse(nim[p], voter[p], db.voterstatus[nim[p]]))
    /\ UNCHANGED <<db, now, op, nim, candidate_id, voter, candidates, history>>

(* ------------------------------ get_results --------------------------- *)
RECURSIVE SumOver(_, _)
\* sum(f[k] for k in S)
SumOver(f, S) ==
    IF S = {} THEN 0
    ELSE LET k == CHOOSE x \in S : TRUE IN f[k] + SumOver(f, S \ {k})

\* mutant of Aggregate: every group counts once
AggregateOnePerGroup(votes) ==
    [cid \in { votes[i].candidate_id : i \in DOMAIN votes } |-> 1]

\* the rows of {"$group": {"_id": "$candidate_id", "count": {"$sum": 1}}}
Aggregate(votes) ==
    [cid \in { votes[i].candidate_id : i \in DOMAIN votes } |->
        Cardinality({ i \in DOMAIN votes : votes[i].candidate_id = cid })]

\* mutant of CountsMap: rows of ids that are not in the registry are skipped
CountsMapKnownOnly(cands, rows) ==
    [k \in { str(cands[i]._id) : i \in DOMAIN cands } |->
        IF k \in DOMAIN rows THEN rows[k] ELSE 0]

\* counts_map: zero for every candidate, then overwritten by the rows
CountsMap(cands, rows) ==
    [k \in { str(cands[i]._id) : i \in DOMAIN cands } \cup DOMAIN rows |->
        IF k \in DOMAIN rows THEN rows[k] ELSE 0]

\* mutant of TotalVotes: the entries are counted instead of summed
TotalVotesLen(counts_map) == Cardinality(DOMAIN counts_map)

\* total_votes = sum(counts_map.values())
TotalVotes(counts_map) == SumOver(counts_map, DOMAIN counts_map)

\* round(count / total_votes * 100.0, 2) in hundredths of a percent, ties to
\* even; 0.0 when there are no votes
Percentage(count, total_votes) ==
    IF total_votes > 0
    THEN LET q == (count * 10000) \div total_votes
             r == (count * 10000) % total_votes
         IN  IF 2 * r > total_votes \/ (2 * r = total_votes /\ q % 2 = 1)
             THEN q + 1 ELSE q
    ELSE 0

\* counts_map.get(cid, 0)
GetCount(counts_map, cid) == IF cid \in DOMAIN counts_map THEN counts_map[cid] ELSE 0

ResultsItem(c, counts_map, total_votes) ==
    [candidate_id |-> str(c._id),
     number |-> c.number,
     count |-> GetCount(counts_map, str(c._id)),
     percentage |-> Percentage(GetCount(counts_map, str(c._id)), total_votes)]

RECURSIVE InsertByNumber(_, _)
InsertByNumber(sorted, r) ==
    IF sorted = <<>> THEN <<r>>
    ELSE IF r.number < Head(sorted).number THEN <<r>> \o sorted
    ELSE <<Head(sorted)>> \o InsertByNumber(Tail(sorted), r)

RECURSIVE SortByNumber(_)
\* results.sort(key=lambda r: r.number): a stable sort
SortByNumber(results) ==
    IF results = <<>> THEN <<>>
    ELSE InsertByNumber(SortByNumber(SubSeq(results, 1, Len(results) - 1)),
                        results[Len(results)])

\* the response of get_results from its two reads
ResultsResponse(cands, votes) ==
    LET counts_map == CountsMap(cands, Aggregate(votes))
        total_votes == TotalVotes(counts_map)
    IN  [kind |-> "results",
         total_votes |-> total_votes,
         results |-> SortByNumber([i \in DOMAIN cands |->
                        ResultsItem(cands[i], counts_map, total_votes)])]

\* GET /api/results arrives
ResultsCall(p) ==
    /\ Arrives(p)
    /\ op' = [op EXCEPT ![p] = "get_results"]
    /\ Goto(p, "gr_candidates")
    /\ acked_at_start' = [acked_at_start EXCEPT ![p] = Acknowledged]
    /\ UNCHANGED <<db, now, nim, candidate_id, voter, candidates,
                   overlapped, after_success, pre_voted, writes>>

\* candidates = list(db["candidate"].find({}))
ResultsFindCandidates(p) ==
    /\ pc[p] = "gr_candidates"
    /\ candidates' = [candidates EXCEPT ![p] = db.candidate]
    /\ Goto(p, "gr_aggregate")
    /\ UNCHANGED <<db, now, op, nim, candidate_id, voter, history>>

\* mutant of ResultsAggregate: a row of an id that is not in counts_map
\* raises (counts_map[cid] += ...), and the request ends in a server error
ResultsAggregateStrict(p) ==
    /\ pc[p] = "gr_aggregate"
    /\ IF \E i \in DOMAIN db.vote :
            \A j \in DOMAIN candidates[p] :
                str(candidates[p][j]._id) # db.vote[i].candidate_id
       THEN Done(p, 500, NoBody)
       ELSE Done(p, 200, ResultsResponse(candidates[p], db.vote))
    /\ UNCHANGED <<db, now, op, nim, candidate_id, voter, candidates, history>>

\* db["vote"].aggregate(pipeline), then the response
ResultsAggregate(p) ==
    /\ pc[p] = "gr_aggregate"
    /\ Done(p, 200, ResultsResponse(candidates[p], db.vote))
    /\ UNCHANGED <<db, now, op, nim, candidate_id, voter, candidates, history>>

(* --------------------------- specifications --------------------------- *)
InitWorkers ==
    /\ now = 1
    /\ pc = [p \in Procs |-> "idle"]
    /\ op = [p \in Procs |-> "none"]
    /\ nim = [p \in Procs |-> 0]
    /\ candidate_id = [p \in Procs |-> "zz"]
    /\ voter = [p \in Procs |-> None]
    /\ candidates = [p \in Procs |-> <<>>]
    /\ code = [p \in Procs |-> 0]
    /\ body = [p \in Procs |-> NoBody]
    /\ overlapped = [p \in Procs |-> FALSE]
    /\ after_success = [p \in Procs |-> FALSE]
    /\ pre_voted = [p \in Procs |-> FALSE]
    /\ writes = [p \in Procs |-> <<>>]
    /\ acked_at_start = [p \in Procs |-> 0]

\* an election about to open: any roster, the registry, no ballots, and a
\* status ledger created lazily for nim 1 and pre-populated with
\* has_voted = false for the others
Init ==
    /\ \E vs \in [Nims -> VoterDocs \cup {None}] :
         db = [voter |-> vs,
               voterstatus |-> [n \in Nims |-> IF n = 1 THEN None ELSE StatusDoc(FALSE, 0)],
               candidate |-> CandidateDocs, vote |-> <<>>]
    /\ InitWorkers

Next ==
    \E p \in Procs :
        \/ \E n \in NimInputs, c \in CandidateIdInputs : CastVoteCall(p, n, c)
        \/ CastVoteFindVoter(p)
        \/ CastVoteFindStatus(p)
        \/ CastVoteFindCandidate(p)
        \/ CastVoteCreateVote(p)
        \/ CastVoteMarkVoted(p)
        \/ \E n \in NimInputs : ValidateCall(p, n)
        \/ ValidateFindVoter(p)
        \/ ValidateFindStatus(p)
        \/ ResultsCall(p)
        \/ ResultsFindCandidates(p)
        \/ ResultsAggregate(p)

Spec == Init /\ [][Next]_vars

\* an election after roster and registry maintenance: nim 1 voted at time 0
\* for candidate 3, which was deleted from the registry afterwards, and the
\* roster has been edited since (nim 1 may have been removed from it)
InitDrift ==
    /\ \E vs \in [Nims -> VoterDocs \cup {None}] :
         db = [voter |-> vs,
               voterstatus |-> [n \in Nims |-> IF n = 1 THEN StatusDoc(TRUE, 0) ELSE None],
               candidate |-> CandidateDocs, vote |-> <<Vote("c3")>>]
    /\ InitWorkers

SpecDrift == InitDrift /\ [][Next]_vars

\* a fresh election: any roster, the registry, and empty voterstatus and
\* vote collections
InitFresh ==
    /\ \E vs \in [Nims -> VoterDocs \cup {None}] :
         db = [voter |-> vs,
               voterstatus |-> [n \in Nims |-> None],
               candidate |-> CandidateDocs, vote |-> <<>>]
    /\ InitWorkers

SpecFresh == InitFresh /\ [][Next]_vars

\* the same requests against a store whose writes may fail
NextFault ==
    \/ Next
    \/ \E p \in Procs : CastVoteMarkFails(p)

SpecFault == Init /\ [][NextFault]_vars

(* ------------------------- vocabulary of the claims -------------------- *)
\* every request has been answered
Returned == \A p \in Procs : pc[p] \in {"idle", "done"}

CastsFor(n) == { p \in Procs : op[p] = "cast_vote" /\ nim[p] = n }

\* the roster entitles n to vote
Eligible(n) == n \in Nims /\ db.voter[n] # None /\ db.voter[n].eligible # "false"

\* the ledger marks n as voted
Voted(n) == n \in Nims /\ db.voterstatus[n] # None /\ db.voterstatus[n].has_voted

\* the string c names a candidate of the registry
Resolves(c) ==
    ObjectId(c) # 0 /\ \E i \in DOMAIN db.candidate : db.candidate[i]._id = ObjectId(c)

\* the ballots and the status records a call has written
BallotWrites(p) == { i \in DOMAIN writes[p] : "candidate_id" \in DOMAIN writes[p][i] }
StatusWrites(p) == { i \in DOMAIN writes[p] : "has_voted" \in DOMAIN writes[p][i] }

(* ------------------------------- claims ------------------------------- *)

\* C1: once all calls have returned, every eligible, not yet voted voter for
\* whom two or more cast_vote calls were made (each naming an existing
\* candidate) has exactly one successful call, every other call of the group
\* was refused with 409, and the group added exactly one ballot.
C1_ExactlyOneWinner ==
    Returned =>
        \A n \in Nims :
            LET calls == CastsFor(n) IN
            ( /\ Cardinality(calls) >= 2
              /\ Eligible(n)
              /\ \E p \in calls : ~pre_voted[p]
              /\ \A p \in calls : Resolves(candidate_id[p]) )
            => /\ Cardinality({ p \in calls : code[p] = 200 }) = 1
               /\ \A p \in calls : code[p] \in {200, 409}
               /\ Cardinality({ w \in calls \X (1..2) : w[2] \in BallotWrites(w[1]) }) = 1

C3_UncontendedVoteSucceeds ==
    \A p \in Procs :
        ( /\ op[p] = "cast_vote" /\ pc[p] = "done"
          /\ Eligible(nim[p]) /\ ~pre_voted[p]
          /\ Resolves(candidate_id[p])
          /\ ~overlapped[p] )
        => /\ code[p] = 200
           /\ Cardinality(BallotWrites(p)) = 1
           /\ \A i \in BallotWrites(p) : writes[p][i] = [candidate_id |-> candidate_id[p]]
           /\ \E i \in DOMAIN db.vote : db.vote[i] = [candidate_id |-> candidate_id[p]]
           /\ Voted(nim[p])

\* an uncontended call for a voter whose status record was pre-populated has
\* returned success
C3_Witness ==
    \E p \in Procs :
        /\ op[p] = "cast_vote" /\ pc[p] = "done" /\ code[p] = 200
        /\ ~overlapped[p] /\ ~pre_voted[p] /\ nim[p] = 2

\* C4: a cast_vote that began after a success for its voter had been
\* returned, and names an existing candidate, writes nothing to the vote and
\* voterstatus collections and is refused with 409.
C4_LaterCallsRefused ==
    \A p \in Procs :
        (op[p] = "cast_vote" /\ after_success[p] /\ Resolves(candidate_id[p]))
        => /\ writes[p] = <<>>
           /\ pc[p] \in {"cv_voter", "cv_status", "done"}
           /\ pc[p] = "done" => code[p] = 409

\* a call that began after a success for its voter has been refused
C4_Witness ==
    \E p \in Procs :
        /\ op[p] = "cast_vote" /\ after_success[p] /\ Resolves(candidate_id[p])
        /\ pc[p] = "done" /\ code[p] = 409

\* C5: has_voted is monotonic: no step takes a voter marked as voted to
\* has_voted = false or to a missing status record.
C5_HasVotedMonotonic ==
    [][\A n \in Nims : Voted(n) => Voted(n)']_vars

\* a voter marked as voted whose status record has been written a second time
C5_Witness ==
    \E n \in Nims :
        /\ Voted(n)
        /\ Cardinality({ p \in CastsFor(n) : StatusWrites(p) # {} }) >= 2

\* C6: a cast_vote whose (well-formed) voter identifier is absent from the
\* roster or flagged ineligible writes nothing, stops at the eligibility
\* check and is refused with 403.
C6_IneligibleRefused ==
    \A p \in Procs :
        (op[p] = "cast_vote" /\ nim[p] \in Nims /\ ~Eligible(nim[p]))
        => /\ writes[p] = <<>>
           /\ pc[p] \in {"cv_voter", "done"}
           /\ pc[p] = "done" => code[p] = 403

\* one call refused for a voter missing from the roster, another for a voter
\* flagged ineligible
C6_Witness ==
    \E p, q \in Procs :
        /\ op[p] = "cast_vote" /\ code[p] = 403 /\ db.voter[nim[p]] = None
        /\ op[q] = "cast_vote" /\ code[q] = 403 /\ db.voter[nim[q]] # None

\* C7: a cast_vote whose candidate_id names no candidate of the registry
\* writes neither a ballot nor a status record, and every ballot in the vote
\* collection names a candidate of the registry.
C7_UnknownCandidateWritesNothing ==
    /\ \A p \in Procs :
          (op[p] = "cast_vote" /\ ~Resolves(candidate_id[p])) => writes[p] = <<>>
    /\ \A i \in DOMAIN db.vote : Resolves(db.vote[i].candidate_id)

\* a call for an eligible, not yet voted voter naming a well-formed id that
\* is not in the registry was refused with 404, and one naming a string that
\* is no id with 400
C7_Witness ==
    \E p, q \in Procs :
        /\ op[p] = "cast_vote" /\ code[p] = 404 /\ candidate_id[p] = "c3"
        /\ op[q] = "cast_vote" /\ code[q] = 400 /\ candidate_id[q] = "zz"

\* C8: no step of validate_voter changes a collection.
C8_ValidateReadOnly ==
    [][\A p \in Procs :
         (op'[p] = "validate_voter" /\ pc'[p] # pc[p]) => db' = db]_vars

\* validate_voter has answered for an identifier that has no status record,
\* and there is still none
C8_Witness ==
    \E p \in Procs :
        /\ op[p] = "validate_voter" /\ pc[p] = "done" /\ code[p] = 200
        /\ db.voterstatus[nim[p]] = None

\* C9: validate_voter is fail-closed: for an identifier with no voter
\* document it answers eligible = false and has_voted = false whatever the
\* ledger holds; otherwise eligible is the document's flag (true when the
\* flag is missing) and has_voted is the ledger's (false with no record).
C9_ValidateFailClosed ==
    [][\A p \in Procs :
         (pc[p] = "vv_status" /\ pc'[p] = "done")
         => /\ code'[p] = 200
            /\ body'[p].nim = nim[p]
            /\ IF db.voter[nim[p]] = None
               THEN ~body'[p].eligible /\ ~body'[p].has_voted
               ELSE /\ body'[p].eligible = (db.voter[nim[p]].eligible \in {"true", "unset"})
                    /\ body'[p].has_voted = Voted(nim[p])]_vars

\* validate_voter has answered has_voted = false for an identifier that is not
\* on the roster and is marked as voted in the ledger
C9_Witness ==
    \E p \in Procs :
        /\ op[p] = "validate_voter" /\ pc[p] = "done" /\ code[p] = 200
        /\ db.voter[nim[p]] = None /\ Voted(nim[p])
        /\ ~body[p].has_voted /\ ~body[p].eligible

RECURSIVE SumCounts(_)
SumCounts(results) ==
    IF results = <<>> THEN 0 ELSE Head(results).count + SumCounts(Tail(results))

\* the ballots whose candidate_id is the id string of no registry candidate
Unmatched ==
    { i \in DOMAIN db.vote :
        \A j \in DOMAIN db.candidate :
            str(db.candidate[j]._id) # db.vote[i].candidate_id }

\* C10 as stated: in every response of get_results the counts of the returned
\* aggregates sum to the reported total, and the total is the number of
\* ballots in the vote collection.
C10_CountsSumToTotal ==
    [][\A p \in Procs :
         (pc[p] = "gr_aggregate" /\ pc'[p] = "done")
         => /\ SumCounts(body'[p].results) = body'[p].total_votes
            /\ body'[p].total_votes = Len(db.vote)]_vars

\* C10 as amended: the reported total is the number of ballots in the vote
\* collection, and the counts of the returned aggregates sum to the total
\* less the ballots whose candidate_id is the id string of no registry
\* candidate.
C10_CountsSumToMatchedBallots ==
    [][\A p \in Procs :
         (pc[p] = "gr_aggregate" /\ pc'[p] = "done")
         => /\ body'[p].total_votes = Len(db.vote)
            /\ SumCounts(body'[p].results) = body'[p].total_votes - Cardinality(Unmatched)]_vars

\* get_results has answered over a ballot that matches a registry candidate
\* and one that matches none
C10_Witness ==
    \E p \in Procs :
        /\ op[p] = "get_results" /\ pc[p] = "done"
        /\ body[p].total_votes = 2
        /\ SumCounts(body[p].results) = 1

\* the ballots that name the candidate with the id string cid, in any spelling
Referencing(cid) ==
    { i \in DOMAIN db.vote : ObjectId(db.vote[i].candidate_id) = ObjectId(cid) }

\* h hundredths of a percent is count / total * 100 rounded to two decimals
IsRoundedShare(h, count, total) ==
    IF total = 0 THEN h = 0
    ELSE /\ 2 * (h * total - count * 10000) <= total
         /\ 2 * (count * 10000 - h * total) <= total

\* C11: every response of get_results holds exactly one aggregate per
\* registry candidate, in ascending order of ballot number, whose count is
\* the number of ballots referencing that candidate and whose percentage is
\* count / total * 100 rounded to two decimals (0 when there are no ballots).
C11_OneAggregatePerCandidate ==
    [][\A p \in Procs :
         (pc[p] = "gr_aggregate" /\ pc'[p] = "done")
         => LET r == body'[p].results IN
            /\ Len(r) = Len(db.candidate)
            /\ \A j \in DOMAIN db.candidate :
                 \E k \in DOMAIN r : /\ r[k].candidate_id = str(db.candidate[j]._id)
                                     /\ r[k].number = db.candidate[j].number
            /\ \A k \in 1..(Len(r) - 1) : r[k].number <= r[k + 1].number
            /\ \A k \in DOMAIN r :
                 /\ r[k].count = Cardinality(Referencing(r[k].candidate_id))
                 /\ IsRoundedShare(r[k].percentage, r[k].count, body'[p].total_votes)
                 /\ r[k].percentage >= 0 /\ r[k].percentage <= 10000]_vars

\* C12: no step of get_results changes a collection, and the total it reports
\* is at least the number of votes acknowledged before it began and at most
\* the number of ballots in the vote collection.
C12_TallyCountsAcknowledgedVotes ==
    [][\A p \in Procs :
         (op'[p] = "get_results" /\ pc'[p] # pc[p])
         => /\ db' = db
            /\ pc'[p] = "done"
               => /\ body'[p].total_votes >= acked_at_start[p]
                  /\ body'[p].total_votes <= Len(db.vote)]_vars

\* get_results began after one vote had been acknowledged and has answered
\* with a total of 2 while the cast_vote that inserted the second ballot is
\* still in flight
C12_Witness ==
    \E p, q \in Procs :
        /\ op[p] = "get_results" /\ pc[p] = "done"
        /\ acked_at_start[p] = 1 /\ body[p].total_votes = 2
        /\ op[q] = "cast_vote" /\ pc[q] = "cv_update"

\* C13: every vote document consists of a candidate_id and nothing else, the
\* response of get_results holds only totals and per-candidate aggregates,
\* and the only other documents cast_vote writes are status records.
C13_BallotsCarryNoVoterIdentity ==
    /\ \A i \in DOMAIN db.vote :
          /\ DOMAIN db.vote[i] = {"candidate_id"}
          /\ db.vote[i].candidate_id \in CandidateIdInputs
    /\ \A p \in Procs :
          (op[p] = "get_results" /\ pc[p] = "done")
          => /\ DOMAIN body[p] = {"kind", "total_votes", "results"}
             /\ \A k \in DOMAIN body[p].results :
                  DOMAIN body[p].results[k] =
                      {"candidate_id", "number", "count", "percentage"}
    /\ \A p \in Procs : \A i \in DOMAIN writes[p] :
          \/ DOMAIN writes[p][i] = {"candidate_id"}
          \/ DOMAIN writes[p][i] = {"found", "has_voted", "voted_at"}

\* a successful cast_vote has written its ballot and its status record, and
\* get_results has answered over the ballot
C13_Witness ==
    \E p, q \in Procs :
        /\ op[p] = "cast_vote" /\ code[p] = 200 /\ Len(writes[p]) = 2
        /\ op[q] = "get_results" /\ pc[q] = "done" /\ body[q].total_votes = 1

\* C14: whenever a ballot is appended to the vote collection, the call that
\* appends it has already written has_voted = true for its voter.
C14_BallotAfterTransition ==
    [][Len(db.vote') > Len(db.vote)
       => \E p \in Procs : /\ pc'[p] # pc[p]
                           /\ StatusWrites(p) # {}
                           /\ Voted(nim[p])]_vars

\* a cast_vote that ended in a server error after its ballot was inserted
FailedBetweenWrites(p) ==
    op[p] = "cast_vote" /\ pc[p] = "done" /\ code[p] = 500 /\ BallotWrites(p) # {}

\* C15: a cast_vote that fails between its two writes leaves its voter marked
\* as voted, every later cast_vote of that voter is refused with 409 and
\* writes nothing, and the calls of that voter have inserted at most one
\* ballot.
C15_FailedCallLeavesVoterMarked ==
    \A p \in Procs :
        FailedBetweenWrites(p)
        => /\ Voted(nim[p])
           /\ \A q \in CastsFor(nim[p]) :
                (q > p /\ ~overlapped[q] /\ pc[q] = "done")
                => code[q] = 409 /\ writes[q] = <<>>
           /\ Cardinality({ w \in CastsFor(nim[p]) \X (1..2) :
                              w[2] \in BallotWrites(w[1]) }) <= 1

\* C16: the candidate is checked before eligibility and vote
\* status: a cast_vote with a malformed nim is refused with 422, and one with
\* a well-formed nim naming a malformed or unknown candidate is refused with
\* 400 or 404 whatever the voter's eligibility and status.
C16_CandidateCheckedFirst ==
    \A p \in Procs :
        (op[p] = "cast_vote" /\ pc[p] = "done")
        => /\ ~NimValid(nim[p]) => code[p] = 422
           /\ (NimValid(nim[p]) /\ ~Resolves(candidate_id[p])) => code[p] \in {400, 404}

\* C17: once a voter is marked as voted, the status record is not written
\* again: no step changes it or its voted_at.
C17_StatusWrittenOnce ==
    [][\A n \in Nims : Voted(n) => db.voterstatus'[n] = db.voterstatus[n]]_vars

\* C18: when the vote collection holds ballots that match no registry
\* candidate, get_results still answers, its total counts those ballots, and
\* its aggregates are those of the registry candidates, with no entry for the
\* ids of those ballots.
C18_DriftBallotsCountedNotListed ==
    [][\A p \in Procs :
         (pc[p] = "gr_aggregate" /\ pc'[p] = "done" /\ Unmatched # {})
         => /\ code'[p] = 200
            /\ body'[p].total_votes = Len(db.vote)
            /\ body'[p].total_votes >= Cardinality(Unmatched)
            /\ Len(body'[p].results) = Len(db.candidate)
            /\ \A k \in DOMAIN body'[p].results : \A i \in Unmatched :
                 body'[p].results[k].candidate_id # db.vote[i].candidate_id]_vars

\* get_results has answered over a vote collection whose only ballot is that
\* of the deleted candidate
C18_Witness ==
    \E p \in Procs :
        /\ op[p] = "get_results" /\ pc[p] = "done" /\ code[p] = 200
        /\ db.vote = <<[candidate_id |-> "c3"]>>
        /\ body[p].total_votes = 1
        /\ Len(body[p].results) = 2

\* C19: from empty voterstatus and vote collections, and with writes that do
\* not fail, the voters marked as voted are never more than the ballots, and
\* a call that has marked its voter has inserted a ballot before.
C19_VotedAtMostBallots ==
    /\ Cardinality({ n \in Nims : Voted(n) }) <= Len(db.vote)
    /\ \A p \in Procs : \A i \in StatusWrites(p) :
          \E j \in BallotWrites(p) : j < i

\* both voters are marked as voted and there are two ballots
C19_Witness ==
    /\ \A n \in Nims : Voted(n)
    /\ Len(db.vote) = 2

====
